---- MODULE Spec2Model ----
(***************************************************************************)
(* os_exec::run (src/os-exec.hh): a host process calls run, which maps a   *)
(* one-int shared cell (the exec-failure channel), forks, execs the         *)
(* program in the child, waits for the child and turns the channel and the *)
(* wait status into one std::error_code.                                   *)
(*                                                                         *)
(* The host process, the forked children and the kernel are modelled       *)
(* together: each call of run is a thread of the host at a position pc[c]; *)
(* each child is a process procs[p]; the kernel owns the shared regions,   *)
(* the process table and the wait statuses.                                *)
(***************************************************************************)
EXTENDS Integers, FiniteSets, Sequences, TLC

\* ------------------------------------------------------------------ bounds
\* Shared regions the kernel can hand out before mmap fails for lack of them.
MaxRegions == 2
\* Process ids the kernel can hand out before fork fails for lack of them.
MaxPids == 2
\* Exit codes an executed program may return: 0..MaxExitCode and 255.
MaxExitCode == 2
\* Signals that may terminate or stop a child: 1..MaxSignal.
MaxSignal == 2

\* --------------------------------------------------------- host constants
\* sizeof(*exec_failure.value): the length handed to mmap.
SizeofInt == 4
\* sizeof(exec_failure.value): the length handed to munmap.
SizeofPtr == 8
PageSize == 4096

\* errno values of <errno.h> the failing system calls report.
ENOENT == 2
EINTR == 4
ECHILD == 10
EAGAIN == 11
ENOMEM == 12
EACCES == 13

EINVAL == 22

MmapErrnos == {ENOMEM, EINVAL}
ForkErrnos == {EAGAIN, ENOMEM}
ExecErrnos == {ENOENT, EACCES}

Calls == {1, 2}
Regions == 1..MaxRegions
Pids == 1..MaxPids
ExitCodes == (0..MaxExitCode) \cup {255}
Signals == 1..MaxSignal

NULL == 0
\* The value of an int that was declared and never assigned.
Uninit == -2

VARIABLES
  pc,       \* pc[c]: where call c of run stands in the host process
  value,    \* value[c]: exec_failure.value, NULL or the mapped region
  pid,      \* pid[c]: what fork returned to the parent
  wstatus,  \* wstatus[c]: the int waitpid fills in
  errno,    \* errno[c]: the calling thread's errno
  result,   \* result[c]: the std::error_code run returned
  region,   \* region[r]: a shared anonymous mapping
  procs,    \* procs[p]: a child process
  sys,      \* sys[c]: what call c has done so far (system calls, accesses)
  cout,     \* bytes the host's standard output holds buffered, not yet written
  written,  \* bytes written to the standard output file, by any process
  quote     \* the byte strings handed to shell_quote or run_echo, and the results

vars == <<pc, value, pid, wstatus, errno, result, region, procs, sys,
          cout, written, quote>>

\* ------------------------------------------------------------ error codes
\* std::error_code: an int and the category it belongs to.
ErrorCode(v, cat) == [payload |-> v, domain |-> cat]
\* A default-constructed std::error_code.
OK == ErrorCode(0, "system")
\* std::make_error_code((std::errc)e).
MakeErrorCode(e) == ErrorCode(e, "generic")
\* std::error_code::operator bool: is it an error?
IsError(o) == o.payload # 0
NoResult == ErrorCode(Uninit, "none")

\* ------------------------------------------------------------- wait status
\* The kernel's encoding of how a child changed state (W_EXITCODE, W_STOPCODE).
ExitedStatus(n) == (n % 256) * 256
SignaledStatus(s, core) == s + (IF core THEN 128 ELSE 0)
StoppedStatus(s) == s * 256 + 127
ContinuedStatus == 65535

\* The <sys/wait.h> macros run applies to wstatus.
WTERMSIG(st) == st % 128
WEXITSTATUS(st) == (st \div 256) % 256
WSTOPSIG(st) == WEXITSTATUS(st)
WIFEXITED(st) == WTERMSIG(st) = 0
\* Variant: any non-zero low seven bits taken for a terminating signal.
WIFSIGNALED_LowBits(st) == st % 128 # 0
\* ((signed char) ((st & 0x7f) + 1) >> 1) > 0
WIFSIGNALED(st) == LET t == (st % 128) + 1
                       sc == IF t > 127 THEN t - 256 ELSE t
                   IN  (IF sc >= 0 THEN sc \div 2 ELSE -((-sc + 1) \div 2)) > 0
WIFSTOPPED(st) == st % 256 = 127

\* ---------------------------------------------------------- shared regions
\* Pages a mapping or unmapping of len bytes covers, counted from its start.
PagesOf(len) == 0..(((len + PageSize - 1) \div PageSize) - 1)

NoRegion == [alloc |-> FALSE, mapped |-> {}, cell |-> Uninit]

FreeRegions == {r \in Regions : ~region[r].alloc}
FreePids == {p \in Pids : procs[p].st = "none"}
Min(S) == CHOOSE x \in S : \A y \in S : x <= y

\* Variant: one channel shared by every call, as a static cell would be.
StaticRegion == Min(Regions)
\* The region a successful mmap hands out: one no earlier mmap handed out.
FreshRegion == Min(FreeRegions)

\* mmap(nullptr, len, PROT_READ | PROT_WRITE, MAP_SHARED | MAP_ANONYMOUS, 0, 0):
\* a fresh zero-filled region.
NewRegion(len) == [alloc |-> TRUE, mapped |-> PagesOf(len), cell |-> 0]
MmapRegion(reg, r, len) == [reg EXCEPT ![r] = NewRegion(len)]

\* munmap(addr, len) in the host process: the pages len covers leave the host's
\* address space; the region lives on in a child that still maps it.
MunmapRegion(reg, r, len) ==
  [reg EXCEPT ![r].mapped = @ \ PagesOf(len)]

\* Variant: a destructor that releases nothing.
DtorLeaks(c, s) == [region |-> region, sys |-> s]

\* ~Exec_Failure(): if (value != nullptr) munmap(value, sizeof(value)).
\* The regions and the record of call c's doings once exec_failure is destroyed.
Dtor(c, s) ==
  IF value[c] # NULL
  THEN [region |-> MunmapRegion(region, value[c], SizeofPtr),
        sys |-> [s EXCEPT ![c].munmap = @ + 1]]
  ELSE [region |-> region, sys |-> s]

\* return o; from run in the host: the result is built, then exec_failure is
\* destroyed.  s is sys as the returning step leaves it.
Return(c, o, s) ==
  /\ result' = [result EXCEPT ![c] = o]
  /\ pc' = [pc EXCEPT ![c] = "returned"]
  /\ region' = Dtor(c, s).region
  /\ sys' = [Dtor(c, s).sys EXCEPT ![c].returns = @ + 1]

\* ------------------------------------------------------------------- Init
NoProc == [st |-> "none", value |-> NULL, errno |-> 0, status |-> Uninit,
           traced |-> FALSE, returns |-> 0, execs |-> 0, writes |-> 0,
           cout |-> <<>>, flushed |-> <<>>]

\* wret is what waitpid returned (0: not called yet); reads, writes and wreads
\* count the host's reads and writes of the channel and its reads of wstatus.
NoSys == [mmap |-> 0, munmap |-> 0, fork |-> 0, waitpid |-> 0, wret |-> 0,
          returns |-> 0, reads |-> 0, writes |-> 0, wreads |-> 0]

\* Each call c at the position start[c], nothing done yet.
InitCallsAt(start) ==
  /\ pc = start
  /\ value = [c \in Calls |-> NULL]
  /\ pid = [c \in Calls |-> Uninit]
  /\ wstatus = [c \in Calls |-> Uninit]
  /\ errno = [c \in Calls |-> 0]
  /\ result = [c \in Calls |-> NoResult]
  /\ region = [r \in Regions |-> NoRegion]
  /\ procs = [p \in Pids |-> NoProc]
  /\ sys = [c \in Calls |-> NoSys]

\* The calls in running are at the head of run, the others are not made.
InitCalls(running) ==
  InitCallsAt([c \in Calls |-> IF c \in running THEN "mmap" ELSE "unused"])

\* No byte string under consideration.
NoQuote == [argv |-> <<>>, alnum |-> <<>>, out |-> <<>>]

\* Nothing buffered, nothing written, no strings to quote.
InitQuiet ==
  /\ cout = <<>>
  /\ written = <<>>
  /\ quote = NoQuote

Init == InitCalls(Calls) /\ InitQuiet

\* ------------------------------------------------------- run: host thread
\* Variant: MAP_FAILED not tested for, the call goes on to fork.
MmapFailedIgnored(c, e) ==
  /\ errno' = [errno EXCEPT ![c] = e]
  /\ pc' = [pc EXCEPT ![c] = "fork"]
  /\ UNCHANGED <<value, pid, wstatus, result, region, procs, sys>>

\* Lines 93-95: mmap returned MAP_FAILED with errno e.
MmapFailed(c, e) ==
  /\ errno' = [errno EXCEPT ![c] = e]
  /\ Return(c, MakeErrorCode(e), sys)
  /\ UNCHANGED <<value, pid, wstatus, procs>>

\* Lines 91-95: map and zero the channel, or return mmap's errno.
Mmap(c) ==
  /\ pc[c] = "mmap"
  /\ \/ /\ FreeRegions # {}
        /\ LET r == FreshRegion IN
             /\ region' = [MmapRegion(region, r, SizeofInt) EXCEPT ![r].cell = 0]
             /\ value' = [value EXCEPT ![c] = r]
        /\ sys' = [sys EXCEPT ![c].mmap = @ + 1, ![c].writes = @ + 1]
        /\ pc' = [pc EXCEPT ![c] = "fork"]
        /\ UNCHANGED <<pid, wstatus, errno, result, procs>>
     \/ \E e \in MmapErrnos : MmapFailed(c, e)
  /\ UNCHANGED <<cout, written, quote>>

\* Variant: pid < 0 not tested for, the call goes on to waitpid.
ForkFailedIgnored(c, e) ==
  /\ pid' = [pid EXCEPT ![c] = -1]
  /\ errno' = [errno EXCEPT ![c] = e]
  /\ sys' = [sys EXCEPT ![c].fork = @ + 1]
  /\ pc' = [pc EXCEPT ![c] = "waitpid"]
  /\ UNCHANGED <<value, wstatus, result, region, procs>>

\* Lines 98-99: fork returned -1 with errno e.
ForkFailed(c, e) ==
  /\ pid' = [pid EXCEPT ![c] = -1]
  /\ errno' = [errno EXCEPT ![c] = e]
  /\ Return(c, MakeErrorCode(e), [sys EXCEPT ![c].fork = @ + 1])
  /\ UNCHANGED <<value, wstatus, procs>>

\* Lines 97-99: fork, or return fork's errno.  The child starts at line 102
\* with a copy of the parent's memory, exec_failure.value and the buffered
\* standard output included.
Fork(c) ==
  /\ pc[c] = "fork"
  /\ \/ /\ FreePids # {}
        /\ LET p == Min(FreePids) IN
             /\ procs' = [procs EXCEPT ![p] = [NoProc EXCEPT !.st = "child",
                                                             !.value = value[c],
                                                             !.cout = cout]]
             /\ pid' = [pid EXCEPT ![c] = p]
        /\ sys' = [sys EXCEPT ![c].fork = @ + 1]
        /\ pc' = [pc EXCEPT ![c] = "waitpid"]
        /\ UNCHANGED <<value, wstatus, errno, result, region>>
     \/ \E e \in ForkErrnos : ForkFailed(c, e)
  /\ UNCHANGED <<cout, written, quote>>

\* Variant: waitpid with WUNTRACED, reporting the stop of an untraced child too.
WaitableUntraced(proc) == proc.st \in {"zombie", "stopped"}

\* Variant: a waitpid that does not block, whatever the child is doing.
WaitableNoHang(proc) == proc.st \notin {"none", "reaped"}

\* A child waitpid(pid, &wstatus, 0) can report: a terminated one, or a traced
\* one that stopped.
Waitable(proc) == \/ proc.st = "zombie"
                  \/ proc.st = "stopped" /\ proc.traced

\* Variant: a failed waitpid is called again instead of being reported.
WaitpidFailedRetry(c, e) ==
  /\ errno' = [errno EXCEPT ![c] = e]
  /\ sys' = [sys EXCEPT ![c].waitpid = @ + 1]
  /\ UNCHANGED <<pc, value, pid, wstatus, result, region>>

\* Variant: waitpid's failure not tested for, the call goes on to line 115.
WaitpidFailedIgnored(c, e) ==
  /\ errno' = [errno EXCEPT ![c] = e]
  /\ sys' = [sys EXCEPT ![c].waitpid = @ + 1, ![c].wret = -1]
  /\ pc' = [pc EXCEPT ![c] = "classify"]
  /\ UNCHANGED <<value, pid, wstatus, result, region>>

\* Lines 111-113: waitpid returned -1 with errno e; wstatus was not written.
WaitpidFailed(c, e) ==
  /\ errno' = [errno EXCEPT ![c] = e]
  /\ Return(c, MakeErrorCode(e), [sys EXCEPT ![c].waitpid = @ + 1, ![c].wret = -1])
  /\ UNCHANGED <<value, pid, wstatus>>

\* Lines 110-113: waitpid(pid, &wstatus, 0) returns the child's status, or fails
\* and run returns waitpid's errno.  It fails with EINTR when a handled signal
\* interrupts the blocked call, and with ECHILD when the host ignores SIGCHLD
\* and the kernel discarded the terminated child.
Waitpid(c) ==
  /\ pc[c] = "waitpid"
  /\ LET p == pid[c] IN
     \/ /\ Waitable(procs[p])
        /\ wstatus' = [wstatus EXCEPT ![c] = procs[p].status]
        /\ procs' = [procs EXCEPT ![p].st =
                       IF @ = "zombie" THEN "reaped" ELSE @]
        /\ sys' = [sys EXCEPT ![c].waitpid = @ + 1, ![c].wret = p]
        /\ pc' = [pc EXCEPT ![c] = "classify"]
        /\ UNCHANGED <<value, pid, errno, result, region>>
     \/ /\ ~Waitable(procs[p])
        /\ UNCHANGED procs
        /\ WaitpidFailed(c, EINTR)
     \/ /\ procs[p].st = "zombie"
        /\ procs' = [procs EXCEPT ![p].st = "reaped"]
        /\ WaitpidFailed(c, ECHILD)
  /\ UNCHANGED <<cout, written, quote>>

\* Variant: the wait status interpreted before the channel.
RunOutcomeStatusFirst(ch, st) ==
  IF WIFEXITED(st)
  THEN IF WEXITSTATUS(st) = 0 THEN (IF ch # 0 THEN MakeErrorCode(ch) ELSE OK)
       ELSE ErrorCode(WEXITSTATUS(st), "non_zero_exit_code")
  ELSE IF WIFSIGNALED(st) THEN ErrorCode(WTERMSIG(st), "killed_by_signal")
  ELSE IF WIFSTOPPED(st) THEN ErrorCode(WSTOPSIG(st), "stopped_by_signal")
  ELSE IF ch # 0 THEN MakeErrorCode(ch)
  ELSE ErrorCode(1, "unknown_termination_cause")

\* Variant: every normal exit taken for success, the exit code not looked at.
RunOutcomeExitIsOK(ch, st) ==
  IF ch # 0 THEN MakeErrorCode(ch)
  ELSE IF WIFEXITED(st) THEN OK
  ELSE IF WIFSIGNALED(st) THEN ErrorCode(WTERMSIG(st), "killed_by_signal")
  ELSE IF WIFSTOPPED(st) THEN ErrorCode(WSTOPSIG(st), "stopped_by_signal")
  ELSE ErrorCode(1, "unknown_termination_cause")

\* Lines 115-125: the outcome run computes from the channel and the wait status.
RunOutcome(ch, st) ==
  IF ch # 0 THEN MakeErrorCode(ch)
  ELSE IF WIFEXITED(st)
       THEN IF WEXITSTATUS(st) = 0 THEN OK
            ELSE ErrorCode(WEXITSTATUS(st), "non_zero_exit_code")
  ELSE IF WIFSIGNALED(st) THEN ErrorCode(WTERMSIG(st), "killed_by_signal")
  ELSE IF WIFSTOPPED(st) THEN ErrorCode(WSTOPSIG(st), "stopped_by_signal")
  ELSE ErrorCode(1, "unknown_termination_cause")

\* *exec_failure.value read in the host: defined only while the host maps it.
Readable(c) == value[c] # NULL /\ 0 \in region[value[c]].mapped

\* Lines 115-125: read the channel, then the wait status, and return.
Classify(c) ==
  /\ pc[c] = "classify"
  /\ Readable(c)
  /\ LET ch == region[value[c]].cell IN
       Return(c, RunOutcome(ch, wstatus[c]),
              [sys EXCEPT ![c].reads = @ + 1,
                          ![c].wreads = @ + (IF ch = 0 THEN 1 ELSE 0)])
  /\ UNCHANGED <<value, pid, wstatus, errno, procs>>
  /\ UNCHANGED <<cout, written, quote>>

\* ------------------------------------------------------ run: child process
\* Does the value execlp returned mean that it failed (line 102)?
ExeclpFailed(ret) == ret < 0

\* Line 102: execlp(program, program, args..., NULL).  On success it does not
\* return: the program replaces the child's image and its mappings are gone.
\* On failure it returns -1 with errno set.  Were the test of line 102 false
\* then, the child would run on past line 107 into the parent's code and return
\* from run (the assert of line 106 is compiled out under NDEBUG).
Execlp(p) ==
  /\ procs[p].st = "child"
  /\ \/ procs' = [procs EXCEPT ![p].st = "program", ![p].value = NULL,
                               ![p].cout = <<>>, ![p].execs = @ + 1]
     \/ \E e \in ExecErrnos :
          procs' = [procs EXCEPT ![p].st = IF ExeclpFailed(-1) THEN "exec_failed"
                                           ELSE "escaped",
                                 ![p].returns = IF ExeclpFailed(-1) THEN @ ELSE @ + 1,
                                 ![p].errno = e, ![p].execs = @ + 1]
  /\ UNCHANGED <<pc, value, pid, wstatus, errno, result, region, sys>>
  /\ UNCHANGED <<cout, written, quote>>

\* Line 103: *exec_failure.value = errno, a store to the shared page.
StoreErrno(p) ==
  /\ procs[p].st = "exec_failed"
  /\ region' = [region EXCEPT ![procs[p].value].cell = procs[p].errno]
  /\ procs' = [procs EXCEPT ![p].st = "stored", ![p].writes = @ + 1]
  /\ UNCHANGED <<pc, value, pid, wstatus, errno, result, sys>>
  /\ UNCHANGED <<cout, written, quote>>

\* Variant: the child ends with exit(0).
ExitProcZero(proc, code) ==
  [proc EXCEPT !.st = "zombie", !.status = ExitedStatus(0), !.value = NULL]

\* Variant: the child leaves run by return instead of exit.
ExitProcReturns(proc, code) ==
  [proc EXCEPT !.st = "escaped", !.returns = @ + 1]

\* exit(code) in a child: the process terminates and does not return.
ExitProc(proc, code) ==
  [proc EXCEPT !.st = "zombie", !.status = ExitedStatus(code), !.value = NULL]

\* What exit writes to the standard output file before the process ends: the
\* bytes its standard output holds buffered.
ExitFlush(proc) == proc.cout

\* Line 104: exit(1).
Exit(p) ==
  /\ procs[p].st = "stored"
  /\ written' = written \o ExitFlush(procs[p])
  /\ procs' = [procs EXCEPT ![p] = [ExitProc(@, 1) EXCEPT
                                      !.cout = <<>>,
                                      !.flushed = ExitFlush(procs[p])]]
  /\ UNCHANGED <<pc, value, pid, wstatus, errno, result, region, sys>>
  /\ UNCHANGED <<cout, quote>>

\* ------------------------------------------- the executed program, signals
Alive(proc) == proc.st \in {"child", "exec_failed", "stored", "program", "stopped"}

\* The executed program terminates with exit code n.
ProgramExit(p) ==
  /\ procs[p].st = "program"
  /\ \E n \in ExitCodes : procs' = [procs EXCEPT ![p] = ExitProc(@, n)]
  /\ UNCHANGED <<pc, value, pid, wstatus, errno, result, region, sys>>
  /\ UNCHANGED <<cout, written, quote>>

\* A signal terminates the child, whatever it was doing.
Kill(p) ==
  /\ Alive(procs[p])
  /\ \E s \in Signals, core \in BOOLEAN :
       procs' = [procs EXCEPT ![p].st = "zombie", ![p].value = NULL,
                              ![p].status = SignaledStatus(s, core)]
  /\ UNCHANGED <<pc, value, pid, wstatus, errno, result, region, sys>>
  /\ UNCHANGED <<cout, written, quote>>

\* The executed program asks to be traced by its parent (PTRACE_TRACEME).
TraceMe(p) ==
  /\ procs[p].st = "program"
  /\ ~procs[p].traced
  /\ procs' = [procs EXCEPT ![p].traced = TRUE]
  /\ UNCHANGED <<pc, value, pid, wstatus, errno, result, region, sys>>
  /\ UNCHANGED <<cout, written, quote>>

\* A signal stops the executed program.
Stop(p) ==
  /\ procs[p].st = "program"
  /\ \E s \in Signals :
       procs' = [procs EXCEPT ![p].st = "stopped", ![p].status = StoppedStatus(s)]
  /\ UNCHANGED <<pc, value, pid, wstatus, errno, result, region, sys>>
  /\ UNCHANGED <<cout, written, quote>>

\* SIGCONT resumes a stopped program.
Cont(p) ==
  /\ procs[p].st = "stopped"
  /\ procs' = [procs EXCEPT ![p].st = "program", ![p].status = Uninit]
  /\ UNCHANGED <<pc, value, pid, wstatus, errno, result, region, sys>>
  /\ UNCHANGED <<cout, written, quote>>

Next ==
  \/ \E c \in Calls : Mmap(c) \/ Fork(c) \/ Waitpid(c) \/ Classify(c)
  \/ \E p \in Pids : Execlp(p) \/ StoreErrno(p) \/ Exit(p)
  \/ \E p \in Pids : ProgramExit(p) \/ Kill(p) \/ TraceMe(p) \/ Stop(p) \/ Cont(p)

\* Two calls of run in one host process, each with its child.
Spec == Init /\ [][Next]_vars

\* One call of run whose host thread keeps being scheduled: a waitpid that can
\* return does return, and the code after it runs.  Nothing is assumed of the
\* child, the program or the signals.
InitOne == InitCalls({1}) /\ InitQuiet
Fairness == \A c \in Calls : WF_vars(Waitpid(c)) /\ WF_vars(Classify(c))
SpecFair == InitOne /\ [][Next]_vars /\ Fairness

\* ------------------------------------- the classification on every status
\* Every status the kernel encodes: an exit code, a terminating signal with or
\* without a core dump, a stop signal, a continued child.
KernelStatuses ==
  {ExitedStatus(n) : n \in 0..255}
    \cup {SignaledStatus(sg, core) : sg \in 1..126, core \in BOOLEAN}
    \cup {StoppedStatus(sg) : sg \in 1..255}
    \cup {ContinuedStatus}

\* Call 1 as a successful waitpid leaves it at line 115, the channel untouched,
\* for a wait status st.
InitStatus ==
  \E st \in KernelStatuses :
    /\ InitQuiet
    /\ pc = [c \in Calls |-> IF c = 1 THEN "classify" ELSE "unused"]
    /\ value = [c \in Calls |-> IF c = 1 THEN 1 ELSE NULL]
    /\ pid = [c \in Calls |-> IF c = 1 THEN 1 ELSE Uninit]
    /\ wstatus = [c \in Calls |-> IF c = 1 THEN st ELSE Uninit]
    /\ errno = [c \in Calls |-> 0]
    /\ result = [c \in Calls |-> NoResult]
    /\ region = [r \in Regions |->
                   IF r = 1 THEN NewRegion(SizeofInt) ELSE NoRegion]
    /\ procs = [p \in Pids |->
                  IF p = 1
                  THEN [NoProc EXCEPT !.st = IF WIFSTOPPED(st) THEN "stopped"
                                             ELSE IF st = ContinuedStatus THEN "program"
                                             ELSE "reaped",
                                      !.traced = WIFSTOPPED(st),
                                      !.status = st, !.execs = 1]
                  ELSE NoProc]
    /\ sys = [c \in Calls |->
                IF c = 1 THEN [NoSys EXCEPT !.mmap = 1, !.writes = 1, !.fork = 1,
                                            !.waitpid = 1, !.wret = 1]
                ELSE NoSys]

NextStatus == \E c \in Calls : Classify(c)

SpecStatus == InitStatus /\ [][NextStatus]_vars

\* ------------------------------------------------------------ shell_quote
\* Byte strings are sequences of byte values 0..255.

\* The longest byte string handed to shell_quote.
MaxLen == 2

Apostrophe == 39
Backslash == 92

\* std::string_view::npos: what find answers when there is no occurrence.
npos == -1

\* The bytes strings are made of: ' \ . a and 0xE9, a byte above 127, which a
\* plain char holds as a negative str where char is signed.
Bytes == {Apostrophe, Backslash, 46, 97, 233}

Strings == UNION {[1..n -> Bytes] : n \in 0..MaxLen}

\* find(ch): the 0-based position of the first occurrence of ch in s, or npos.
Find(s, ch) ==
  IF \E i \in 1..Len(s) : s[i] = ch
    THEN Min({i \in 1..Len(s) : s[i] = ch}) - 1
    ELSE npos

\* remove_prefix(n).
RemovePrefix(s, n) == SubSeq(s, n + 1, Len(s))

\* Line 57: the literal "@%+=:,./-_".
SafeSet == <<64, 37, 43, 61, 58, 44, 46, 47, 45, 95>>

\* Line 57: std::isalnum(c), c a plain char.  For a 7-bit byte it answers by
\* the digits and the letters.  For a byte above 127 its argument is negative
\* where char is signed, which std::isalnum leaves undefined, and where char
\* is unsigned the answer is the locale's: either way the answer hi is not
\* decided by the code.
IsAlnum(c, hi) ==
  IF c < 128
    THEN c \in (48..57) \cup (65..90) \cup (97..122)
    ELSE hi

\* Line 57: is_safe.
IsSafe(str, hi) ==
  \A i \in 1..Len(str) :
    IsAlnum(str[i], hi) \/ Find(SafeSet, str[i]) # npos

\* Lines 64-70: the loop; answers retval and what is left of the string.
RECURSIVE QuoteLoop(_, _)
QuoteLoop(retval, str) ==
  LET q == Find(str, Apostrophe) IN
    IF q # npos
      THEN QuoteLoop(retval \o SubSeq(str, 1, q) \o <<Backslash, Apostrophe>>,
                     RemovePrefix(str, q + 1))
      ELSE [retval |-> retval, rest |-> str]

\* A variant that forgets what follows the last apostrophe.
AppendRestDropped(retval, str) == retval

\* Line 72: if (!value.empty()) retval.append(value).
AppendRest(retval, str) ==
  IF str # <<>> THEN retval \o str ELSE retval

\* Lines 49-74.
shell_quote(str, hi) ==
  IF str = <<>>
    THEN <<Apostrophe, Apostrophe>>
    ELSE IF IsSafe(str, hi)
      THEN str
      ELSE LET l == QuoteLoop(<<Apostrophe>>, str) IN
             AppendRest(l.retval, l.rest) \o <<Apostrophe>>

\* Two byte strings, each with the answer std::isalnum gives for its bytes
\* above 127, and no call of shell_quote made yet.
InitQuote ==
  /\ InitCalls({})
  /\ cout = <<>>
  /\ written = <<>>
  /\ \E a, b \in Strings, ha, hb \in BOOLEAN :
       quote = [argv |-> <<a, b>>, alnum |-> <<ha, hb>>, out |-> <<>>]

\* One call of shell_quote, on the next string.
Quote ==
  /\ Len(quote.out) < Len(quote.argv)
  /\ LET i == Len(quote.out) + 1 IN
       quote' = [quote EXCEPT
                   !.out = Append(@, shell_quote(quote.argv[i], quote.alnum[i]))]
  /\ UNCHANGED <<pc, value, pid, wstatus, errno, result, region, procs, sys>>
  /\ UNCHANGED <<cout, written>>

NextQuote == Quote

SpecQuote == InitQuote /\ [][NextQuote]_vars

\* ------------------------------------------------ run_echo, standard output
Space == 32
Newline == 10

\* Output of the host that std::cout holds buffered, not yet written, when the
\* operation is called: the byte x.
Pending == <<120>>

\* Line 133: a space and the quoted form of each argument from the i-th on.
RECURSIVE EchoArgs(_, _, _)
EchoArgs(argv, alnum, i) ==
  IF i > Len(argv)
    THEN <<>>
    ELSE <<Space>> \o shell_quote(argv[i], alnum[i]) \o EchoArgs(argv, alnum, i + 1)

\* Lines 132-133: what run_echo hands to std::cout before std::endl.
EchoText(argv, alnum) == shell_quote(argv[1], alnum[1]) \o EchoArgs(argv, alnum, 2)

\* Lines 132-133: the quoted program and arguments go to std::cout's buffer.
EchoWrite(c) ==
  /\ pc[c] = "echo"
  /\ cout' = cout \o EchoText(quote.argv, quote.alnum)
  /\ pc' = [pc EXCEPT ![c] = "endl"]
  /\ UNCHANGED <<value, pid, wstatus, errno, result, region, procs, sys>>
  /\ UNCHANGED <<written, quote>>

\* Variant: a newline that stays in the buffer, as '\n' in place of std::endl.
EndlNoFlush(buf) == [cout |-> buf \o <<Newline>>, written |-> <<>>]

\* std::endl on a stream whose buffer holds buf: a newline is put, and the
\* buffer is written out.
Endl(buf) == [cout |-> <<>>, written |-> buf \o <<Newline>>]

\* Line 134: std::cout << std::endl; line 135 then calls run.
EchoEndl(c) ==
  /\ pc[c] = "endl"
  /\ cout' = Endl(cout).cout
  /\ written' = written \o Endl(cout).written
  /\ pc' = [pc EXCEPT ![c] = "mmap"]
  /\ UNCHANGED <<value, pid, wstatus, errno, result, region, procs, sys>>
  /\ UNCHANGED quote

\* The host, back from the call, writes out what std::cout still holds: a
\* later flush of its own, or its exit.
HostFlush ==
  /\ \A c \in Calls : pc[c] \in {"unused", "returned"}
  /\ cout # <<>>
  /\ written' = written \o cout
  /\ cout' = <<>>
  /\ UNCHANGED <<pc, value, pid, wstatus, errno, result, region, procs, sys>>
  /\ UNCHANGED quote

\* The program and at most one argument, each of at most one byte.
EchoArgvs ==
  LET short == {s \in Strings : Len(s) <= 1} IN
    {<<program>> : program \in short}
      \cup {<<program, arg>> : program \in short, arg \in short}

\* One call by the host, of run_echo (it starts at line 132) or of run, with
\* or without output of the host pending in std::cout.
InitEcho ==
  \E start \in {"echo", "mmap"}, pending \in {<<>>, Pending} :
    /\ InitCallsAt([c \in Calls |-> IF c = 1 THEN start ELSE "unused"])
    /\ cout = pending
    /\ written = <<>>
    /\ IF start = "echo"
         THEN \E argv \in EchoArgvs, hi \in BOOLEAN :
                quote = [argv |-> argv, alnum |-> [i \in 1..Len(argv) |-> hi],
                         out |-> <<>>]
         ELSE quote = NoQuote

NextEcho ==
  \/ \E c \in Calls : EchoWrite(c) \/ EchoEndl(c)
  \/ HostFlush
  \/ Next

SpecEcho == InitEcho /\ [][NextEcho]_vars

\* ------------------------------------------------------------ claims
Returned(c) == pc[c] = "returned"
Forked(c) == pid[c] \in Pids
ChildOf(c) == procs[pid[c]]
\* The child of call c ran execlp and it failed, leaving an errno.
ExecFailed(c) == Forked(c) /\ ChildOf(c).errno # 0
\* The child of call c ran execlp and the program replaced it.
ExecSucceeded(c) == Forked(c) /\ ChildOf(c).execs = 1 /\ ChildOf(c).errno = 0
WaitpidSucceeded(c) == sys[c].wret > 0
\* The channel of call c, as the shared page holds it.
Channel(c) == region[value[c]].cell

\* The outcome the wait status st stands for: exit code 0 is OK, exit code n is
\* NON_ZERO_EXIT n, terminating signal sg is KILLED_BY_SIGNAL sg, stop signal sg
\* is STOPPED_BY_SIGNAL sg, anything else UNKNOWN_TERMINATION 1.
ExpectedOutcome(st) ==
  IF \E n \in 0..255 : st = ExitedStatus(n)
  THEN LET n == CHOOSE n \in 0..255 : st = ExitedStatus(n)
       IN  IF n = 0 THEN OK ELSE ErrorCode(n, "non_zero_exit_code")
  ELSE IF \E sg \in 1..126, core \in BOOLEAN : st = SignaledStatus(sg, core)
  THEN ErrorCode(CHOOSE sg \in 1..126 : \E core \in BOOLEAN : st = SignaledStatus(sg, core),
                 "killed_by_signal")
  ELSE IF \E sg \in 1..255 : st = StoppedStatus(sg)
  THEN ErrorCode(CHOOSE sg \in 1..255 : st = StoppedStatus(sg), "stopped_by_signal")
  ELSE ErrorCode(1, "unknown_termination_cause")

\* C1 as stated: whenever the child's execlp failed, run returns the OS errno
\* outcome carrying the errno the child observed, whatever the child's status
\* and whatever waitpid did.
C1_ExecErrnoAlways ==
  \A c \in Calls :
    Returned(c) /\ ExecFailed(c) => result[c] = MakeErrorCode(ChildOf(c).errno)

\* C1 amended: when the child's execlp failed, the child stored its errno in the
\* channel and waitpid succeeded, run returns the OS errno outcome carrying
\* that errno, whatever status the child terminated with.
C1_ExecErrnoReported ==
  \A c \in Calls :
    Returned(c) /\ ExecFailed(c) /\ ChildOf(c).writes = 1 /\ WaitpidSucceeded(c)
      => result[c] = MakeErrorCode(ChildOf(c).errno)

\* A call returned ENOENT from the channel although a signal killed its child
\* after the store, so that the wait status is no exit status at all.
C1_Witness ==
  \E c \in Calls :
    /\ Returned(c) /\ ExecFailed(c) /\ ChildOf(c).writes = 1 /\ WaitpidSucceeded(c)
    /\ WIFSIGNALED(wstatus[c])
    /\ result[c] = MakeErrorCode(ENOENT)

\* C2 as stated: whenever the child's execlp succeeded, the channel is 0 and the
\* outcome is the one the program's wait status stands for; nothing else on the
\* parent's path, a failing waitpid included, decides it.
C2_ProgramDecidesAlways ==
  \A c \in Calls :
    Returned(c) /\ ExecSucceeded(c)
      => Channel(c) = 0 /\ result[c] = ExpectedOutcome(wstatus[c])

\* C2 amended: when the child's execlp succeeded and waitpid succeeded, the
\* channel is 0 when the parent reads it and the outcome is the one the
\* program's wait status stands for.
C2_ProgramDecides ==
  \A c \in Calls :
    Returned(c) /\ ExecSucceeded(c) /\ WaitpidSucceeded(c)
      => /\ Channel(c) = 0
         /\ sys[c].reads = 1
         /\ result[c] = ExpectedOutcome(wstatus[c])

\* A call whose program exited with 255 returned NON_ZERO_EXIT 255 while the
\* other call's child had written a failed exec's errno to its own channel.
C2_Witness ==
  \E c \in Calls, d \in Calls :
    /\ c # d
    /\ Returned(c) /\ ExecSucceeded(c) /\ WaitpidSucceeded(c)
    /\ result[c] = ErrorCode(255, "non_zero_exit_code")
    /\ ExecFailed(d) /\ ChildOf(d).writes = 1 /\ Channel(d) # 0

\* C3: with the channel 0 after a successful waitpid, the outcome is the one
\* the wait status stands for, in the order exit 0, exit n, terminating
\* signal, stop signal, anything else; for every wait status.
C3_Classification ==
  \A c \in Calls :
    Returned(c) /\ WaitpidSucceeded(c) /\ Channel(c) = 0
      => result[c] = ExpectedOutcome(wstatus[c])

\* A status of none of the three shapes was classified UNKNOWN_TERMINATION 1.
C3_Witness ==
  \E c \in Calls :
    /\ Returned(c) /\ WaitpidSucceeded(c) /\ Channel(c) = 0
    /\ wstatus[c] = ContinuedStatus
    /\ result[c] = ErrorCode(1, "unknown_termination_cause")

\* C4: the outcome is OK (payload 0) exactly when allocation, fork and waitpid
\* succeeded, the channel is 0 and the child exited normally with code 0; so
\* every other outcome of every path has a non-zero payload.
C4_OkIffCleanExit ==
  \A c \in Calls :
    Returned(c) =>
      /\ ~IsError(result[c]) <=>
           /\ sys[c].mmap = 1
           /\ Forked(c)
           /\ WaitpidSucceeded(c)
           /\ Channel(c) = 0
           /\ ChildOf(c).st = "reaped"
           /\ ChildOf(c).status = ExitedStatus(0)
      /\ ~IsError(result[c]) => result[c] = OK
      /\ IsError(result[c]) =>
           result[c].domain \in {"generic", "non_zero_exit_code", "killed_by_signal",
                                 "stopped_by_signal", "unknown_termination_cause"}

\* One call returned OK while the other returned NON_ZERO_EXIT.
C4_Witness ==
  \E c \in Calls, d \in Calls :
    /\ Returned(c) /\ result[c] = OK
    /\ Returned(d) /\ result[d].domain = "non_zero_exit_code"

\* C5: a call that mapped the channel released it exactly once, in the host,
\* by the time it returned and not before, whichever path returned; a call
\* whose mapping failed released nothing; maps and unmaps balance on return.
C5_ChannelReleased ==
  \A c \in Calls :
    /\ Returned(c) => sys[c].munmap = sys[c].mmap
    /\ Returned(c) /\ value[c] # NULL
         => sys[c].mmap = 1 /\ region[value[c]].mapped = {}
    /\ Returned(c) /\ value[c] = NULL => sys[c].mmap = 0 /\ sys[c].munmap = 0
    /\ ~Returned(c) => sys[c].munmap = 0
    /\ ~Returned(c) /\ value[c] # NULL => region[value[c]].mapped # {}

\* One call returned on fork's failure and the other on waitpid's, both with
\* the channel they had mapped released.
C5_Witness ==
  \E c \in Calls, d \in Calls :
    /\ Returned(c) /\ pid[c] = -1 /\ sys[c].munmap = 1
    /\ Returned(d) /\ sys[d].wret = -1 /\ sys[d].munmap = 1
    /\ region[value[c]].mapped = {} /\ region[value[d]].mapped = {}

\* C6: every call returns exactly once, in the host, with one outcome; no child
\* ever returns from run: it is replaced by the program or ends inside run.
C6_OneOutcome ==
  /\ \A c \in Calls :
       /\ sys[c].returns <= 1
       /\ Returned(c) <=> sys[c].returns = 1
       /\ Returned(c) <=> result[c] # NoResult
  /\ \A p \in Pids :
       /\ procs[p].returns = 0
       /\ procs[p].st \in {"none", "child", "exec_failed", "stored", "program",
                           "stopped", "zombie", "reaped"}

\* Both calls returned; one child ended inside run after a failed exec and its
\* store, the other was replaced by the program.
C6_Witness ==
  \E c \in Calls, d \in Calls :
    /\ Returned(c) /\ ExecFailed(c) /\ ChildOf(c).writes = 1
    /\ ChildOf(c).st = "reaped" /\ ChildOf(c).status = ExitedStatus(1)
    /\ Returned(d) /\ ExecSucceeded(d) /\ ChildOf(d).st = "reaped"

\* C7 as stated: whenever fork succeeded, the child has terminated and been
\* waited for when run returns.
C7_ReapedAlways ==
  \A c \in Calls : Returned(c) /\ Forked(c) => ChildOf(c).st = "reaped"

\* C7 amended: whenever fork and waitpid succeeded and the status waitpid
\* reported is not a stop, the child has terminated and been waited for when
\* run returns.
C7_ReapedAfterWait ==
  \A c \in Calls :
    Returned(c) /\ Forked(c) /\ WaitpidSucceeded(c) /\ ~WIFSTOPPED(wstatus[c])
      => ChildOf(c).st = "reaped"

\* A call returned KILLED_BY_SIGNAL with its child reaped.
C7_Witness ==
  \E c \in Calls :
    /\ Returned(c) /\ Forked(c) /\ WaitpidSucceeded(c) /\ ~WIFSTOPPED(wstatus[c])
    /\ result[c].domain = "killed_by_signal"
    /\ ChildOf(c).st = "reaped"

\* C8: a call whose mmap failed returns mmap's errno as an OS errno outcome at
\* once: it forks nothing, waits for nothing and never touches the channel.
C8_AllocFailure ==
  \A c \in Calls :
    /\ sys[c].mmap = 0 => pc[c] \in {"mmap", "returned"}
    /\ Returned(c) /\ sys[c].mmap = 0
         => /\ result[c] = MakeErrorCode(errno[c])
            /\ errno[c] \in MmapErrnos
            /\ value[c] = NULL
            /\ sys[c].fork = 0 /\ pid[c] = Uninit
            /\ sys[c].waitpid = 0 /\ wstatus[c] = Uninit
            /\ sys[c].reads = 0 /\ sys[c].writes = 0
    /\ \A p \in Pids : procs[p].st # "none" => \E d \in Calls : pid[d] = p /\ sys[d].mmap = 1

\* A call returned EINVAL from a failed mmap.
C8_Witness ==
  \E c \in Calls :
    Returned(c) /\ sys[c].mmap = 0 /\ sys[c].fork = 0 /\ result[c] = MakeErrorCode(EINVAL)

\* C9: a call whose fork failed returns fork's errno as an OS errno outcome at
\* once, with no child to exec, no waitpid, no read of the channel, and with
\* the channel it had mapped released.
C9_ForkFailure ==
  \A c \in Calls :
    /\ pid[c] = -1 => Returned(c)
    /\ Returned(c) /\ pid[c] = -1
         => /\ result[c] = MakeErrorCode(errno[c])
            /\ errno[c] \in ForkErrnos
            /\ sys[c].waitpid = 0 /\ wstatus[c] = Uninit
            /\ sys[c].reads = 0
            /\ sys[c].mmap = 1 /\ sys[c].munmap = 1
            /\ region[value[c]].mapped = {}
            /\ \A p \in Pids : procs[p].st # "none" => \E d \in Calls : d # c /\ pid[d] = p

\* A call returned EAGAIN from a failed fork, its channel released.
C9_Witness ==
  \E c \in Calls :
    /\ Returned(c) /\ pid[c] = -1 /\ sys[c].fork = 1
    /\ result[c] = MakeErrorCode(EAGAIN)
    /\ region[value[c]].mapped = {}

\* C10: a call whose waitpid failed returns waitpid's errno as an OS errno
\* outcome at once, having read neither the channel nor the wait status.
C10_WaitFailure ==
  \A c \in Calls :
    /\ sys[c].wret = -1 => Returned(c)
    /\ Returned(c) /\ sys[c].wret = -1
         => /\ result[c] = MakeErrorCode(errno[c])
            /\ errno[c] \in {EINTR, ECHILD}
            /\ sys[c].waitpid = 1
            /\ sys[c].reads = 0 /\ sys[c].wreads = 0
            /\ wstatus[c] = Uninit

\* A call returned ECHILD from a failed waitpid although its child had written
\* a failed exec's errno to the channel.
C10_Witness ==
  \E c \in Calls :
    /\ Returned(c) /\ sys[c].wret = -1
    /\ result[c] = MakeErrorCode(ECHILD)
    /\ ExecFailed(c) /\ Channel(c) = ChildOf(c).errno

\* The outcome of call c told from its own system calls and its own child only.
SoloOutcome(c) ==
  IF sys[c].mmap = 0 \/ pid[c] = -1 \/ sys[c].wret = -1 THEN MakeErrorCode(errno[c])
  ELSE IF ChildOf(c).writes = 1 THEN MakeErrorCode(ChildOf(c).errno)
  ELSE ExpectedOutcome(wstatus[c])

\* C11: two calls running concurrently in one host use distinct channels and
\* distinct children, each waits for its own child only, and each returns the
\* outcome its own system calls and its own child decide, whatever the other
\* call and the other child do.
C11_NoInterference ==
  \A c \in Calls :
    /\ \A d \in Calls \ {c} :
         /\ value[c] # NULL /\ value[d] # NULL => value[c] # value[d]
         /\ Forked(c) /\ Forked(d) => pid[c] # pid[d]
    /\ WaitpidSucceeded(c) => sys[c].wret = pid[c]
    /\ WaitpidSucceeded(c) /\ ChildOf(c).st = "reaped" => wstatus[c] = ChildOf(c).status
    /\ Returned(c) => result[c] = SoloOutcome(c)

\* Both calls forked; the child of one failed to exec and that call returned
\* ENOENT, the program of the other exited 0 and that call returned OK.
C11_Witness ==
  \E c \in Calls, d \in Calls :
    /\ c # d
    /\ Returned(c) /\ ExecFailed(c) /\ result[c] = MakeErrorCode(ENOENT)
    /\ Returned(d) /\ ExecSucceeded(d) /\ result[d] = OK
    /\ Channel(c) = ENOENT /\ Channel(d) = 0

\* C14: the host reads the channel only after a successful waitpid, in states
\* where its child has terminated or has been replaced by the program: never
\* while the child can still write the channel.
C14_ReadAfterReap ==
  \A c \in Calls :
    /\ pc[c] = "classify" \/ sys[c].reads > 0
         => /\ WaitpidSucceeded(c)
            /\ ChildOf(c).st \notin {"child", "exec_failed", "stored"}
            /\ ChildOf(c).value = NULL
    /\ sys[c].reads > 0 => Returned(c) /\ sys[c].reads = 1

\* A call is about to read the channel its reaped child has written.
C14_Witness ==
  \E c \in Calls :
    /\ pc[c] = "classify"
    /\ ChildOf(c).st = "reaped" /\ ChildOf(c).writes = 1
    /\ Channel(c) = ChildOf(c).errno

\* C15: the host writes the channel once, to 0, when it maps it and before it
\* forks, and never again; a child writes it at most once, only after its
\* execlp failed, and after that write it does nothing but terminate, never
\* with exit code 0: it exits with 1 unless a signal ends it first.
C15_WriteDiscipline ==
  /\ \A c \in Calls :
       /\ sys[c].writes = sys[c].mmap /\ sys[c].writes <= 1
       /\ sys[c].fork > 0 => sys[c].writes = 1
       /\ pc[c] = "fork" => Channel(c) = 0
  /\ \A p \in Pids :
       /\ procs[p].writes <= 1
       /\ procs[p].writes = 1
            => /\ procs[p].execs = 1 /\ procs[p].errno \in ExecErrnos
               /\ procs[p].st \in {"stored", "zombie", "reaped"}
       /\ procs[p].writes = 1 /\ procs[p].st \in {"zombie", "reaped"}
            => /\ procs[p].status # ExitedStatus(0)
               /\ WIFEXITED(procs[p].status) => WEXITSTATUS(procs[p].status) = 1
       /\ procs[p].st = "stored" => procs[p].writes = 1

\* A child wrote EACCES to the channel and exited with 1.
C15_Witness ==
  \E c \in Calls :
    /\ Forked(c) /\ ChildOf(c).writes = 1
    /\ ChildOf(c).st = "zombie" /\ ChildOf(c).status = ExitedStatus(1)
    /\ Channel(c) = EACCES /\ sys[c].writes = 1

\* C16: a call maps at most once, forks at most once, waits at most once and
\* its child execs at most once; a system call that failed (an interrupted
\* waitpid included) has made the call return its errno in the same step.
C16_NoRetry ==
  /\ \A c \in Calls :
       /\ sys[c].mmap <= 1 /\ sys[c].fork <= 1 /\ sys[c].waitpid <= 1
       /\ errno[c] # 0 => Returned(c) /\ result[c] = MakeErrorCode(errno[c])
       /\ sys[c].wret = -1 => sys[c].waitpid = 1
  /\ \A p \in Pids : procs[p].execs <= 1
  /\ Cardinality({p \in Pids : procs[p].st # "none"})
       = Cardinality({c \in Calls : Forked(c)})

\* A call returned EINTR from its one waitpid while its child runs on.
C16_Witness ==
  \E c \in Calls :
    /\ Returned(c) /\ result[c] = MakeErrorCode(EINTR)
    /\ sys[c].waitpid = 1 /\ sys[c].fork = 1 /\ sys[c].mmap = 1
    /\ ChildOf(c).st = "program"

\* C18: waitpid has no options, so the stop of an untraced child is not
\* reported: the call stays in waitpid, and STOPPED_BY_SIGNAL is returned only
\* for a child that is traced.
C18_NoStopUntraced ==
  \A c \in Calls :
    /\ Returned(c) /\ result[c].domain = "stopped_by_signal"
         => Forked(c) /\ ChildOf(c).traced
    /\ Forked(c) /\ ~ChildOf(c).traced /\ sys[c].wret > 0
         => ~WIFSTOPPED(wstatus[c]) /\ ChildOf(c).st = "reaped"

\* A call is blocked in waitpid while its untraced child is stopped.
C18_Witness ==
  \E c \in Calls :
    /\ pc[c] = "waitpid" /\ sys[c].waitpid = 0
    /\ ChildOf(c).st = "stopped" /\ ~ChildOf(c).traced

ChildTerminated(c) == Forked(c) /\ ChildOf(c).st \in {"zombie", "reaped"}

RefSafeByte(b) ==
  \/ b \in 48..57
  \/ b \in 65..90
  \/ b \in 97..122
  \/ b \in {64, 37, 43, 61, 58, 44, 46, 47, 45, 95}

RECURSIVE RefEscape(_)
RefEscape(v) ==
  IF v = <<>> THEN <<>>
  ELSE (IF Head(v) = Apostrophe THEN <<Backslash, Apostrophe>> ELSE <<Head(v)>>)
         \o RefEscape(Tail(v))

RefQuote(v) ==
  IF v = <<>> THEN <<Apostrophe, Apostrophe>>
  ELSE IF \A i \in 1..Len(v) : RefSafeByte(v[i]) THEN v
  ELSE <<Apostrophe>> \o RefEscape(v) \o <<Apostrophe>>

\* C12: for every byte string v, shell_quote(v) is the reference transform of
\* v.
C12_EqualsReference ==
  \A i \in 1..Len(quote.out) : quote.out[i] = RefQuote(quote.argv[i])

\* C12, on the strings whose bytes are all below 128: there shell_quote is the
\* reference transform.
C12_EqualsReferenceAscii ==
  \A i \in 1..Len(quote.out) :
    (\A k \in 1..Len(quote.argv[i]) : quote.argv[i][k] < 128)
      => quote.out[i] = RefQuote(quote.argv[i])

\* A string with an apostrophe between other bytes has been quoted.
C12_Witness ==
  /\ Len(quote.out) = 2
  /\ \E i \in 1..2 :
       /\ Len(quote.argv[i]) = 2
       /\ quote.argv[i][1] = Apostrophe
       /\ quote.argv[i][2] = 97
       /\ quote.out[i] = <<Apostrophe, Backslash, Apostrophe, 97, Apostrophe>>

\* What the claim's inverse makes of a quoted body: the backslash before each
\* apostrophe is deleted.
RECURSIVE Unescape(_)
Unescape(r) ==
  IF r = <<>> THEN <<>>
  ELSE IF Len(r) >= 2 /\ r[1] = Backslash /\ r[2] = Apostrophe
    THEN <<Apostrophe>> \o Unescape(SubSeq(r, 3, Len(r)))
    ELSE <<Head(r)>> \o Unescape(Tail(r))

\* A result is quoted when it stands between apostrophes.
IsQuoted(r) == Len(r) >= 2 /\ r[1] = Apostrophe /\ r[Len(r)] = Apostrophe

Unquote(r) == IF IsQuoted(r) THEN Unescape(SubSeq(r, 2, Len(r) - 1)) ELSE r

\* C20: shell_quote is injective, and the input is recovered from the result:
\* from a quoted result by stripping the outer apostrophes and deleting the
\* backslash before each apostrophe, and an unquoted result is non-empty and
\* is the input itself.
C20_Invertible ==
  /\ \A i \in 1..Len(quote.out) :
       /\ quote.out[i] # <<>>
       /\ Unquote(quote.out[i]) = quote.argv[i]
       /\ ~IsQuoted(quote.out[i]) => quote.out[i] = quote.argv[i]
  /\ Len(quote.out) = 2 /\ quote.argv[1] # quote.argv[2]
       => quote.out[1] # quote.out[2]

\* Two different strings have been quoted, one of them with text after its
\* apostrophe, the other one returned as it is.
C20_Witness ==
  /\ Len(quote.out) = 2
  /\ quote.argv[1] = <<Apostrophe, 97>>
  /\ quote.out[1] = <<Apostrophe, Backslash, Apostrophe, 97, Apostrophe>>
  /\ quote.argv[2] = <<97, 46>>
  /\ quote.out[2] = quote.argv[2]

\* The call under way is one of run_echo.
Echoing == quote.argv # <<>> /\ quote.out = <<>>

\* How many times the byte string t occurs in s.
Occurrences(t, s) ==
  Cardinality({i \in 1..(Len(s) - Len(t) + 1) : SubSeq(s, i, i + Len(t) - 1) = t})

\* The line of the call: the quoted program, a space and the quoted form of
\* each argument, a newline.
C13_Line ==
  LET q(i) == shell_quote(quote.argv[i], quote.alnum[i]) IN
    IF Len(quote.argv) = 1
      THEN q(1) \o <<Newline>>
      ELSE q(1) \o <<Space>> \o q(2) \o <<Newline>>

\* C13: in a call of run_echo nothing of run has happened while the line is
\* not written, and from the moment run starts the line has been written to
\* standard output exactly once, std::cout holds nothing of it, and no child
\* has written anything, whatever run does and returns.
C13_LineOnceBeforeRun ==
  \A c \in Calls :
    Echoing /\ pc[c] # "unused" =>
      /\ pc[c] \in {"echo", "endl"} =>
           /\ Occurrences(C13_Line, written) = 0
           /\ sys[c] = NoSys
           /\ \A r \in Regions : ~region[r].alloc
           /\ \A p \in Pids : procs[p] = NoProc
      /\ pc[c] \notin {"echo", "endl"} =>
           /\ Occurrences(C13_Line, written) = 1
           /\ cout = <<>>
           /\ \A p \in Pids : procs[p].flushed = <<>>

\* run_echo of a program and an argument that needs quoting, called with
\* output pending, has returned after its child failed to exec and exited.
C13_Witness ==
  /\ Echoing
  /\ Len(quote.argv) = 2
  /\ quote.argv[2] = <<Apostrophe>>
  /\ Returned(1)
  /\ ExecFailed(1)
  /\ ChildOf(1).status = ExitedStatus(1)
  /\ written = Pending \o C13_Line

\* C19: a child whose execlp failed writes nothing to standard output, and
\* output of the host that was pending at the call is written at most once.
C19_ChildSilent ==
  /\ \A p \in Pids : procs[p].flushed = <<>>
  /\ Occurrences(Pending, written) <= 1

====
